---- MODULE Spec2Model ----
(***************************************************************************)
(* A model of the goplin client library (src/goplin.go) and of its         *)
(* command-line front end (src/cmd/goplin/main.go).                        *)
(*                                                                         *)
(* Spec    : one run of main: the port scan and the pairing handshake of   *)
(*           New, then the persisting of the token and the dispatch.       *)
(* SpecOps : the operations of a constructed Client (the paginated list    *)
(*           operations).                                                  *)
(*                                                                         *)
(* The Joplin server is the environment: every response it may give to a   *)
(* request is drawn with \E from the sets below.  A response body is       *)
(* decoded the way encoding/json decodes into the struct the caller        *)
(* passed with SetResult: a field the body does not carry keeps the value  *)
(* the struct already holds.                                               *)
(***************************************************************************)
EXTENDS Integers, Sequences, FiniteSets, TLC

(* ------------------------------------------------------------------ *)
(* Program constants                                                  *)
(* ------------------------------------------------------------------ *)
joplinMinPortNum == 41184
joplinMaxPortNum == 41194
retriesGetApiToken == 20

(* ------------------------------------------------------------------ *)
(* Bounds of the model                                                *)
(* ------------------------------------------------------------------ *)
\* How many polls the server may answer with something the poll loop
\* neither counts nor ends on (the loop itself has no such limit).
MaxSpin == 1
\* The longest scripted run of "waiting" answers before "accepted".
MaxScriptWaits == 21
\* How many polls the unscripted server may answer "waiting".
MaxFreeWaits == 2

(* ------------------------------------------------------------------ *)
(* Values                                                             *)
(* ------------------------------------------------------------------ *)
Ports == joplinMinPortNum..joplinMaxPortNum

\* A field a JSON body does not carry.
Absent == "<absent>"

\* The token of the settings file: none, or one configured earlier.
ConfigTokens == {"", "cfgTok"}
\* Tokens a server may put in an /auth/check body.
ApiTokens == {"tokA", "tokB"}
\* Auth tokens a server may put in an /auth body.
AuthTokens == {"", "auth1"}

\* Go's error values: nil, or an error made for a request to a port.
Err(kind, request, port) == [kind |-> kind, request |-> request, port |-> port]
Nil == Err("nil", "", 0)

\* The four ways a request can end, as the code tells them apart:
\* err != nil, resp.IsError() (status >= 400), resp.IsSuccess() (2xx),
\* and any other status.
Outcomes == {"transport", "httperr", "other", "success"}

(***************************************************************************)
(* The server.  Unscripted, it may answer any request in any way.  The     *)
(* scripted server is the fake of a pairing test: it listens on one port   *)
(* (a connection to any other port is refused), hands out an auth token,   *)
(* answers the first scriptWaits polls "waiting" and every later one       *)
(* "accepted" with a token.                                                *)
(***************************************************************************)

VARIABLES
    pc,               \* where the run of main is
    apiToken,         \* main: viper.GetString("api_token"), New's argument
    client,           \* main: the package-level *Client: "nil" or "&newClient"
    err,              \* main: err
    configWrites,     \* how many times the settings file was written
    configToken,      \* the api_token of the settings file
    i,                \* New: the loop's port
    retErr,           \* New: retErr
    joplinPortFound,  \* New: joplinPortFound
    newClient,        \* New: newClient (port, apiToken)
    authToken,        \* New: authToken
    result,           \* getApiToken: result (Status, ApiToken)
    retries,          \* getApiToken: retries
    probed,           \* history: the ports probed with GET /ping, in order
    authPosts,        \* history: the POST /auth requests issued
    polls,            \* history: the GET /auth/check requests issued
    sleeps,           \* history: the time.Sleep(time.Second) calls made
    waitingPolls,     \* history: polls answered 2xx with status "waiting" in the body
    unknownPolls,     \* history: polls answered 2xx with a status that is none of the three
    otherPolls,       \* history: polls answered with a status that is neither 2xx nor >= 400
    lastPoll,         \* history: the response to the latest poll
    pingOk,           \* history: the ports whose /ping answered with success
    lastPingErr,      \* history: the last port whose /ping ended in an error (0: none)
    pairPorts,        \* history: the ports sent a POST /auth or a GET /auth/check
    authOutcome,      \* history: how the latest POST /auth ended
    scripted,         \* the server is the scripted one (else it answers freely)
    scriptPort,       \* the scripted server's port
    scriptWaits,      \* how many polls the scripted server answers "waiting"
    calls,            \* how many client operations were called
    failedBefore,     \* history: an earlier operation returned an error
    sentTo,           \* history: the port and token of every request of every operation
    op,               \* the client operation called ("none": none)
    opPc,             \* "idle", "loop" (before the operation's request) or "returned"
    id,               \* the operation's id argument
    orderBy,          \* a list operation's orderBy argument
    orderDir,         \* a list operation's orderDir argument, character by character
    queryParams,      \* the operation's queryParams
    page,             \* a list operation's page
    pageResult,       \* a list operation's result (Items, HasMore)
    acc,              \* a list operation's accumulator (notes, tags, folders, items)
    opErr,            \* the error the operation returned
    entity,           \* a get-by-ID operation's tag, note or folder
    requests,         \* history: the query parameters of the requests issued, in order
    lastResp,         \* history: the response to the latest request
    served,           \* history: the items of the 2xx responses, in order
    wellServed,       \* history: every response was 2xx and carried has_more
    cmd,              \* the subcommand main dispatched ("none": none)
    cmdPc,            \* "idle", "loop" (in Run), "returned" or "panic"
    cmdIDs,           \* the subcommand's IDs
    duplicatesOnly,   \* list tags: DuplicatesOnly
    idx,              \* Run: the position of the range loop in IDs (from 1)
    attempts,         \* history: the IDs passed to DeleteTag or GetTag, in order
    tags,             \* list tags: the tags GetAllTags returned
    output,           \* what Run printed, line by line
    runErr            \* the error Run returned

newVars == <<i, retErr, joplinPortFound, newClient, authToken, result, retries>>
mainVars == <<apiToken, client, err, configWrites, configToken>>
histVars == <<probed, authPosts, polls, sleeps, waitingPolls, unknownPolls, otherPolls, lastPoll,
              pingOk, lastPingErr, pairPorts, authOutcome>>
envVars == <<scripted, scriptPort, scriptWaits>>
opVars == <<calls, failedBefore, sentTo, op, opPc, id, orderBy, orderDir, queryParams, page, pageResult, acc,
            opErr, entity, requests, lastResp, served, wellServed>>
cmdVars == <<cmd, cmdPc, cmdIDs, duplicatesOnly, idx, attempts, tags, output, runErr>>
vars == <<pc, mainVars, newVars, histVars, envVars, opVars, cmdVars>>

\* getApiToken's result struct as declared: zero values.
ZeroResult == [Status |-> "", ApiToken |-> ""]
\* No poll was issued yet.
NoPoll == [kind |-> "none", status |-> Absent, token |-> Absent]
\* A list operation's result struct as declared: zero values.
ZeroPage == [Items |-> <<>>, HasMore |-> FALSE]
\* A Tag, Note or Folder as declared: zero values.
ZeroEntity == [ID |-> ""]
\* No query parameters, and no response yet.
NoParams == [token |-> ""]
NoResp == [kind |-> "none"]

\* No client operation is in progress.
OpsIdle ==
    /\ calls = 0
    /\ failedBefore = FALSE
    /\ sentTo = {}
    /\ op = "none"
    /\ opPc = "idle"
    /\ id = ""
    /\ orderBy = ""
    /\ orderDir = <<>>
    /\ queryParams = NoParams
    /\ page = 0
    /\ pageResult = ZeroPage
    /\ acc = <<>>
    /\ opErr = Nil
    /\ entity = ZeroEntity
    /\ requests = <<>>
    /\ lastResp = NoResp
    /\ served = <<>>
    /\ wellServed = TRUE

\* No subcommand is running.
CmdIdle ==
    /\ cmd = "none"
    /\ cmdPc = "idle"
    /\ cmdIDs = <<>>
    /\ duplicatesOnly = FALSE
    /\ idx = 0
    /\ attempts = <<>>
    /\ tags = <<>>
    /\ output = <<>>
    /\ runErr = Nil

(* ------------------------------------------------------------------ *)
(* main and New                                                       *)
(* ------------------------------------------------------------------ *)
Init ==
    /\ pc = "probe"
    /\ apiToken \in ConfigTokens
    /\ client = "nil"
    /\ err = Nil
    /\ configWrites = 0
    /\ configToken = apiToken
    /\ i = joplinMinPortNum
    /\ retErr = Nil
    /\ joplinPortFound = FALSE
    /\ newClient = [port |-> 0, apiToken |-> apiToken]
    /\ authToken = ""
    /\ result = ZeroResult
    /\ retries = 0
    /\ probed = <<>>
    /\ authPosts = 0
    /\ polls = 0
    /\ sleeps = 0
    /\ waitingPolls = 0
    /\ unknownPolls = 0
    /\ otherPolls = 0
    /\ lastPoll = NoPoll
    /\ pingOk = {}
    /\ lastPingErr = 0
    /\ pairPorts = {}
    /\ authOutcome = "none"
    /\ OpsIdle
    /\ CmdIdle
    /\ \/ scripted = FALSE /\ scriptPort = 0 /\ scriptWaits = 0
       \/ /\ scripted = TRUE
          /\ scriptPort \in Ports
          /\ scriptWaits \in 0..MaxScriptWaits
          /\ apiToken = ""

\* The error New keeps after the probe of `port` did not succeed, `old`
\* being retErr before it.  On an HTTP error status the code assigns the
\* request's err, which is nil on that path (src/goplin.go:605-607).
ProbeErr(outcome, port, old) ==
    CASE outcome = "transport" -> Err("transport", "/ping", port)
      [] outcome = "httperr"   -> Nil
      [] OTHER                 -> old

\* Variant of NextPort: a loop that steps by two.
NextPortSkipsOne(port) == port + 2
\* The for loop's i++.
NextPort(port) == port + 1

\* Variant of AfterFailedProbe: a failed probe ends the scan.
AfterFailedProbeStops(next) == "return"
\* Where the scan goes after a failed probe, `next` being the loop's next
\* port: the loop's condition i <= joplinMaxPortNum.
AfterFailedProbe(next) ==
    IF next <= joplinMaxPortNum THEN "probe" ELSE "return"

\* Variant of AfterFound: the handshake whatever the token.
AfterFoundAlwaysPairs(token) == "getAuthToken"
\* Where New goes after a probe succeeded: the handshake when no token
\* was passed, else the end of the scan (break).
AfterFound(token) ==
    IF Len(token) = 0 THEN "getAuthToken" ELSE "return"

\* How GET /ping on `port` may end.
PingOutcomes(port) ==
    IF scripted
    THEN {IF port = scriptPort THEN "success" ELSE "transport"}
    ELSE Outcomes

\* One iteration of New's for loop: GET /ping on port i.
NewProbe ==
    /\ pc = "probe"
    /\ i <= joplinMaxPortNum
    /\ \E outcome \in PingOutcomes(i) :
        /\ probed' = Append(probed, i)
        /\ IF outcome = "success"
           THEN /\ newClient' = [newClient EXCEPT !.port = i]
                /\ pingOk' = pingOk \cup {i}
                /\ pc' = AfterFound(apiToken)
                \* with a token: joplinPortFound = true; break
                /\ joplinPortFound' = (pc' = "return")
                /\ UNCHANGED <<i, retErr, lastPingErr>>
           ELSE /\ retErr' = ProbeErr(outcome, i, retErr)
                /\ lastPingErr' = IF outcome = "other" THEN lastPingErr ELSE i
                /\ i' = NextPort(i)
                /\ pc' = AfterFailedProbe(i')
                /\ UNCHANGED <<newClient, joplinPortFound, pingOk>>
    /\ UNCHANGED <<mainVars, authToken, result, retries, envVars>>
    /\ UNCHANGED <<authPosts, polls, sleeps, waitingPolls, unknownPolls, otherPolls, lastPoll,
                   pairPorts, authOutcome, opVars, cmdVars>>

(* ------------------------------------------------------------------ *)
(* The pairing handshake                                              *)
(* ------------------------------------------------------------------ *)
\* What json.Unmarshal leaves in a struct field that held `old`.
Decode(old, field) == IF field = Absent THEN old ELSE field

\* The responses to POST /auth: an outcome and, on success, the body's
\* auth_token.
AuthResponses ==
    IF scripted
    THEN { [kind |-> "success", auth_token |-> "auth1"] }
    ELSE { [kind |-> k, auth_token |-> Absent] : k \in Outcomes \ {"success"} }
         \cup { [kind |-> "success", auth_token |-> t] : t \in AuthTokens \cup {Absent} }

\* Variant of AuthErr: only a transport error and an error status fail.
AuthErrNoneOnOther(kind, port) ==
    CASE kind = "transport" -> Err("transport", "/auth", port)
      [] kind = "httperr"   -> Err("got error response", "/auth", port)
      [] OTHER              -> Nil
\* getAuthToken's returned error.
AuthErr(kind, port) ==
    CASE kind = "transport" -> Err("transport", "/auth", port)
      [] kind = "httperr"   -> Err("got error response", "/auth", port)
      [] kind = "success"   -> Nil
      [] OTHER              -> Err("got unexpected response", "/auth", port)

\* getAuthToken, and New's handling of what it returns.
getAuthToken ==
    /\ pc = "getAuthToken"
    /\ \E resp \in AuthResponses :
        LET e == AuthErr(resp.kind, newClient.port) IN
        /\ authPosts' = authPosts + 1
        /\ authOutcome' = resp.kind
        /\ pairPorts' = pairPorts \cup {newClient.port}
        /\ IF e # Nil
           THEN /\ retErr' = e
                /\ pc' = "return"
                /\ UNCHANGED authToken
           ELSE /\ authToken' = Decode("", resp.auth_token)
                /\ pc' = "getApiToken"
                /\ UNCHANGED retErr
    /\ result' = ZeroResult
    /\ retries' = 0
    /\ UNCHANGED <<mainVars, i, joplinPortFound, newClient, envVars>>
    /\ UNCHANGED <<probed, polls, sleeps, waitingPolls, unknownPolls, otherPolls, lastPoll, pingOk,
                   lastPingErr, opVars, cmdVars>>

\* The status values a server may put in an /auth/check body.
Statuses == {"accepted", "rejected", "waiting", "bogus"}

\* A response to GET /auth/check: an outcome and, on success, the body's
\* status and token.
PollResp(k, s, t) == [kind |-> k, status |-> s, token |-> t]

\* The responses an unscripted server may give to GET /auth/check.  (The
\* body of an error response is decoded into result too, which is dead on
\* that path: it is left out.)
FreePollResponses ==
    { PollResp(k, Absent, Absent) : k \in Outcomes \ {"success"} }
    \cup { PollResp("success", s, t) :
             s \in Statuses \cup {Absent}, t \in ApiTokens \cup {Absent} }

\* The responses of the scripted server to poll number n (from 1).
ScriptPollResponses(n) ==
    IF n <= scriptWaits
    THEN { PollResp("success", "waiting", Absent) }
    ELSE { PollResp("success", "accepted", t) : t \in ApiTokens }

\* The responses to poll number n.
PollResponses(n) ==
    IF scripted THEN ScriptPollResponses(n) ELSE FreePollResponses

\* Variants of PollsAgain: a bound one poll later, and one poll earlier.
PollsAgainInclusive(n) == n <= retriesGetApiToken
PollsAgainOneShort(n) == n + 1 < retriesGetApiToken
\* After a counted "waiting": whether the loop sleeps and polls again
\* (retries < retriesGetApiToken, with retries already incremented).
PollsAgain(n) == n < retriesGetApiToken

\* Variant of PollVerdict: a transport error is polled again.
PollVerdictErrorRetries(kind, status) ==
    CASE kind = "httperr" -> "error"
      [] kind = "success" /\ status \in {"accepted", "rejected", "waiting"} -> status
      [] OTHER -> "again"
\* Variant of PollVerdict: "rejected" taken for "waiting".
PollVerdictRejectedWaits(kind, status) ==
    CASE kind \in {"transport", "httperr"} -> "error"
      [] kind = "success" /\ status = "accepted" -> status
      [] kind = "success" /\ status \in {"rejected", "waiting"} -> "waiting"
      [] OTHER -> "again"
\* What one iteration of getApiToken's loop does with a response, status
\* being result.Status as decoded: "accepted", "rejected", "waiting",
\* "error" (a transport error or an HTTP error status), or "again" when no
\* branch of the loop body is taken and the bare for loop starts over.
PollVerdict(kind, status) ==
    CASE kind \in {"transport", "httperr"} -> "error"
      [] kind = "success" /\ status \in {"accepted", "rejected", "waiting"} -> status
      [] OTHER -> "again"

\* getApiToken's retErr for a verdict that ends the loop without a token.
PollErr(kind, verdict, port) ==
    CASE kind = "transport"   -> Err("transport", "/auth/check", port)
      [] kind = "httperr"     -> Err("got error response", "/auth/check", port)
      [] verdict = "rejected" -> Err("request rejected", "/auth/check", port)
      [] OTHER -> Err("could not get an answer from user", "/auth/check", port)

\* Variant of AcceptedToken: the token is dropped.
AcceptedTokenIgnored(res) == ""
\* The token getApiToken returns on "accepted": result.ApiToken.
AcceptedToken(res) == res.ApiToken

\* Variant of SleepsBeforeNextPoll: a sleep after every "waiting".
SleepsAfterEveryWaiting(verdict, again) == verdict = "waiting"
\* Whether the loop calls time.Sleep after a response: in the "waiting"
\* branch, and only when it polls again.
SleepsBeforeNextPoll(verdict, again) == verdict = "waiting" /\ again

\* One iteration of getApiToken's for loop: GET /auth/check, and, when the
\* loop ends with it, the return and New's handling of what is returned.
getApiToken ==
    /\ pc = "getApiToken"
    /\ \E resp \in PollResponses(polls + 1) :
        LET decoded == IF resp.kind = "success"
                       THEN [Status   |-> Decode(result.Status, resp.status),
                             ApiToken |-> Decode(result.ApiToken, resp.token)]
                       ELSE result
            verdict == PollVerdict(resp.kind, decoded.Status)
            again   == \/ verdict = "again"
                       \/ verdict = "waiting" /\ PollsAgain(retries + 1)
        IN
        /\ verdict = "again" => unknownPolls + otherPolls < MaxSpin
        /\ (verdict = "waiting" /\ ~scripted) => retries < MaxFreeWaits
        /\ polls' = polls + 1
        /\ lastPoll' = resp
        /\ pairPorts' = pairPorts \cup {newClient.port}
        /\ unknownPolls' = unknownPolls +
              (IF verdict = "again" /\ resp.kind = "success" THEN 1 ELSE 0)
        /\ otherPolls' = otherPolls +
              (IF verdict = "again" /\ resp.kind = "other" THEN 1 ELSE 0)
        /\ sleeps' = IF SleepsBeforeNextPoll(verdict, again) THEN sleeps + 1 ELSE sleeps
        /\ waitingPolls' = waitingPolls +
              (IF resp.kind = "success" /\ resp.status = "waiting" THEN 1 ELSE 0)
        /\ IF again
           THEN /\ result' = decoded
                /\ retries' = IF verdict = "waiting" THEN retries + 1 ELSE retries
                /\ UNCHANGED <<pc, retErr, newClient, joplinPortFound>>
           ELSE /\ result' = ZeroResult
                /\ retries' = 0
                /\ pc' = "return"
                /\ IF verdict = "accepted"
                   THEN /\ newClient' = [newClient EXCEPT !.apiToken = AcceptedToken(decoded)]
                        /\ joplinPortFound' = TRUE
                        /\ UNCHANGED retErr
                   ELSE /\ newClient' = [newClient EXCEPT !.apiToken = ""]
                        /\ retErr' = PollErr(resp.kind, verdict, newClient.port)
                        /\ UNCHANGED joplinPortFound
    /\ UNCHANGED <<mainVars, i, authToken, envVars, probed, authPosts, pingOk, lastPingErr,
                   authOutcome, opVars, cmdVars>>

(* ------------------------------------------------------------------ *)
(* The end of New, and main after it                                  *)
(* ------------------------------------------------------------------ *)
\* New's two return statements.
NewReturn ==
    /\ pc = "return"
    /\ IF ~joplinPortFound
       THEN client' = "nil" /\ err' = retErr
       ELSE client' = "&newClient" /\ err' = Nil
    /\ pc' = "afterNew"
    /\ UNCHANGED <<apiToken, configWrites, configToken, newVars, histVars, envVars, opVars, cmdVars>>

\* Variant of PersistsToken: the settings file is written on every run.
PersistsTokenAlways(token) == TRUE
\* main writes the settings file when the token it read was empty.
PersistsToken(token) == Len(token) = 0

\* main after New: log.Fatal on an error; with no configured token the
\* token of the client is written to the settings file.  GetApiToken reads
\* c.apiToken, which panics on a nil client.
mainAfterNew ==
    /\ pc = "afterNew"
    /\ IF err # Nil
       THEN pc' = "fatal" /\ UNCHANGED <<configWrites, configToken>>
       ELSE IF PersistsToken(apiToken)
            THEN IF client = "nil"
                 THEN pc' = "panic" /\ UNCHANGED <<configWrites, configToken>>
                 ELSE \E written \in BOOLEAN :
                        IF written
                        THEN /\ configToken' = newClient.apiToken
                             /\ configWrites' = configWrites + 1
                             /\ pc' = "dispatch"
                        ELSE /\ pc' = "fatal"
                             /\ UNCHANGED <<configWrites, configToken>>
            ELSE pc' = "dispatch" /\ UNCHANGED <<configWrites, configToken>>
    /\ UNCHANGED <<apiToken, client, err, newVars, histVars, envVars, opVars, cmdVars>>

\* kong.Parse and ctx.Run: a command line that does not parse ends the
\* run; every subcommand calls a method of client, which panics on nil.
mainRun ==
    /\ pc = "dispatch"
    /\ \E parsed \in BOOLEAN :
        pc' = IF ~parsed THEN "exit" ELSE IF client = "nil" THEN "panic" ELSE "ran"
    /\ UNCHANGED <<mainVars, newVars, histVars, envVars, opVars, cmdVars>>

Next == NewProbe \/ getAuthToken \/ getApiToken \/ NewReturn \/ mainAfterNew \/ mainRun

Spec == Init /\ [][Next]_vars

(* ------------------------------------------------------------------ *)
(* The paginated list operations of a Client                          *)
(* ------------------------------------------------------------------ *)
\* The most pages a server answers with has_more true (the loops have no
\* such limit).
MaxPages == 3
\* The most operations called on one client.
MaxCalls == 2

ListOps == {"GetAllTags", "GetAllNotes", "GetAllFolders", "GetNotesByTag",
            "GetNotesInFolder", "GetNoteTags", "Search"}

\* The list operations that tell a 404 from the other error statuses.
OpsWith404 == {"GetNotesByTag", "GetNoteTags"}

\* The item lists a page body may carry.
PageItems == {<<>>, <<"A">>, <<"A", "B">>, <<"B", "A">>}

\* How a page request can end: as Outcomes, a 404 told from the other
\* error statuses.
PageOutcomes == {"transport", "404", "httperr", "other", "success"}

\* A field of a page body: carried with a value, or not carried.
Field(v) == [present |-> TRUE, value |-> v]
NoField(zero) == [present |-> FALSE, value |-> zero]

\* The responses to a page request: an outcome and, on success, the body's
\* items and has_more, either of which the body may not carry (a 204 has
\* no body at all).
PageResponses ==
    { [kind |-> k, items |-> NoField(<<>>), has_more |-> NoField(FALSE)] :
        k \in PageOutcomes \ {"success"} }
    \cup { [kind |-> "success", items |-> it, has_more |-> h] :
             it \in {Field(l) : l \in PageItems} \cup {NoField(<<>>)},
             h \in {Field(b) : b \in BOOLEAN} \cup {NoField(FALSE)} }

\* The clients New may have returned.
Clients == { [port |-> joplinMinPortNum, apiToken |-> "cfgTok"],
             [port |-> joplinMaxPortNum, apiToken |-> "tokA"] }

\* The list operations that take orderBy and orderDir (Search takes none).
OrderedOps == ListOps \ {"Search"}
\* The orderBy arguments of a call: none, and a field name.
OrderBys == {"", "Title"}
\* The orderDir arguments of a call, character by character: none, lower
\* case, mixed case, and one that is no direction.
OrderDirs == { <<>>, <<"d", "e", "s", "c">>, <<"A", "s", "c">>, <<"d", "?">> }

\* unicode.ToUpper on the characters of OrderDirs.
UpperRune(c) ==
    CASE c = "a" -> "A"
      [] c = "c" -> "C"
      [] c = "d" -> "D"
      [] c = "e" -> "E"
      [] c = "s" -> "S"
      [] OTHER   -> c
\* Variant of ToUpper: the string as it is.
ToUpperIdentity(s) == s
\* strings.ToUpper.
ToUpper(s) == [k \in 1..Len(s) |-> UpperRune(s[k])]

\* The queryParams a list operation builds before its loop: token and
\* page "1" (strconv.Itoa, kept as the number), order_by and order_dir
\* only for a non-empty argument.
ListParams(token, by, dir) ==
    [token     |-> token,
     page      |-> 1,
     order_by  |-> IF Len(by) # 0 THEN Field(by) ELSE NoField(""),
     order_dir |-> IF Len(dir) # 0 THEN Field(ToUpper(dir)) ELSE NoField(<<>>)]

(* ------------------------------------------------------------------ *)
(* The single-resource operations of a Client                         *)
(* ------------------------------------------------------------------ *)
\* The operations that fetch one entity by its ID.
GetOps == {"GetTag", "GetNote", "GetFolder"}
SingleOps == GetOps \cup {"CreateTag", "UpdateNote", "DeleteTag", "DeleteTagFromNote",
                          "CreateTagsNotes", "UpdateNoteAuthor", "GetAuthorField",
                          "CreateFolder", "DeleteFolder"}
\* The operations that pass a struct to SetResult and SetError.
DecodingOps == GetOps \cup {"GetAuthorField"}

\* The IDs of a call and of a response body.
IDs == {"id1", "id2"}

\* The responses to a single-resource request: an outcome and, unless the
\* transport failed, a body that may carry an id.
EntityResponses ==
    { [kind |-> k, id |-> f] :
        k \in PageOutcomes \ {"transport"},
        f \in {Field(x) : x \in IDs} \cup {NoField("")} }
    \cup { [kind |-> "transport", id |-> NoField("")] }

\* The query parameters of a single-resource request.
SingleParams(token) == [token |-> token]

\* The calls of an operation with its arguments: orderBy and orderDir
\* for a list operation that takes them, an id for a single-resource
\* operation.
Calls ==
    { [op |-> o, orderBy |-> by, orderDir |-> dir, id |-> ""] :
        o \in OrderedOps, by \in OrderBys, dir \in OrderDirs }
    \cup { [op |-> "Search", orderBy |-> "", orderDir |-> <<>>, id |-> ""] }
    \cup { [op |-> o, orderBy |-> "", orderDir |-> <<>>, id |-> x] :
              o \in SingleOps, x \in IDs }

\* The queryParams operation o starts with.
CallParams(o, token, by, dir) ==
    IF o \in ListOps THEN ListParams(token, by, dir) ELSE SingleParams(token)
\* page := 1 of a list operation (the others have no page).
FirstPage(o) == IF o \in ListOps THEN 1 ELSE 0

\* Variant of RequestTarget: every request goes to the first port of the
\* range.
RequestTargetFirstPort(c, params) == [port |-> joplinMinPortNum, token |-> params.token]
\* Where a request of client c goes, and with which token: the URL is
\* formatted with c.port, the token is the one put in queryParams.
RequestTarget(c, params) == [port |-> c.port, token |-> params.token]

\* A client New returned, and an operation called on it; a list operation
\* has built its queryParams and set page := 1.
InitOps ==
    /\ pc = "ops"
    /\ apiToken = ""
    /\ client = "&newClient"
    /\ err = Nil
    /\ configWrites = 0
    /\ configToken = ""
    /\ i = joplinMinPortNum
    /\ retErr = Nil
    /\ joplinPortFound = TRUE
    /\ newClient \in Clients
    /\ authToken = ""
    /\ result = ZeroResult
    /\ retries = 0
    /\ probed = <<>>
    /\ authPosts = 0
    /\ polls = 0
    /\ sleeps = 0
    /\ waitingPolls = 0
    /\ unknownPolls = 0
    /\ otherPolls = 0
    /\ lastPoll = NoPoll
    /\ pingOk = {}
    /\ lastPingErr = 0
    /\ pairPorts = {}
    /\ authOutcome = "none"
    /\ scripted = FALSE /\ scriptPort = 0 /\ scriptWaits = 0
    /\ calls = 1
    /\ failedBefore = FALSE
    /\ sentTo = {}
    /\ \E call \in Calls :
          /\ op = call.op
          /\ orderBy = call.orderBy
          /\ orderDir = call.orderDir
          /\ id = call.id
    /\ opPc = "loop"
    /\ queryParams = CallParams(op, newClient.apiToken, orderBy, orderDir)
    /\ page = FirstPage(op)
    /\ pageResult = ZeroPage
    /\ acc = <<>>
    /\ opErr = Nil
    /\ entity = ZeroEntity
    /\ requests = <<>>
    /\ lastResp = NoResp
    /\ served = <<>>
    /\ wellServed = TRUE
    /\ CmdIdle

\* Variant of PageErr: Search returns no error for a status that is
\* neither 2xx nor an error status.
PageErrSearchLenient(o, kind, port) ==
    CASE kind = "transport" -> Err("transport", o, port)
      [] kind = "404" /\ o \in OpsWith404 -> Err("could not find note", o, port)
      [] kind \in {"404", "httperr"} -> Err("got error response", o, port)
      [] o = "Search" -> Nil
      [] OTHER -> Err("got unexpected response", o, port)
\* The error a list operation returns for a response that is not 2xx.
PageErr(o, kind, port) ==
    CASE kind = "transport" -> Err("transport", o, port)
      [] kind = "404" /\ o \in OpsWith404 -> Err("could not find note", o, port)
      [] kind \in {"404", "httperr"} -> Err("got error response", o, port)
      [] OTHER -> Err("got unexpected response", o, port)

\* What json.Unmarshal leaves in a field of result that held `old`.
DecodeField(old, field) == IF field.present THEN field.value ELSE old
\* What json.Unmarshal leaves in result after a 2xx response: the struct
\* is declared once, before the loop, and decoded into on every page.
DecodePage(old, resp) ==
    [Items   |-> DecodeField(old.Items, resp.items),
     HasMore |-> DecodeField(old.HasMore, resp.has_more)]

\* Variant of NextPage: a loop that skips a page.
NextPageSkipsOne(p) == p + 2
\* page++.
NextPage(p) == p + 1

\* Variant of MorePages: a loop that stops after two pages.
MorePagesUpToTwo(res, p) == res.HasMore /\ p < 2
\* Whether the loop goes on to another page: result.HasMore, whatever the
\* page.
MorePages(res, p) == res.HasMore

\* One iteration of the for loop of list operation o: the request for the
\* current page and what the loop does with the response.
FetchPage(o) ==
    /\ pc = "ops"
    /\ op = o
    /\ opPc = "loop"
    /\ \E resp \in PageResponses :
        LET decoded == DecodePage(pageResult, resp) IN
        /\ requests' = Append(requests, queryParams)
        /\ sentTo' = sentTo \cup {RequestTarget(newClient, queryParams)}
        /\ lastResp' = resp
        /\ wellServed' = (wellServed /\ resp.kind = "success" /\ resp.has_more.present)
        /\ IF resp.kind = "success"
           THEN /\ decoded.HasMore => page < MaxPages
                /\ pageResult' = decoded
                /\ acc' = acc \o decoded.Items
                /\ served' = served \o resp.items.value
                /\ IF MorePages(decoded, page)
                   THEN /\ page' = NextPage(page)
                        /\ queryParams' = [queryParams EXCEPT !.page = page']
                        /\ UNCHANGED <<opPc, opErr>>
                   ELSE /\ opPc' = "returned"
                        /\ opErr' = Nil
                        /\ UNCHANGED <<page, queryParams>>
           ELSE /\ opPc' = "returned"
                /\ opErr' = PageErr(o, resp.kind, newClient.port)
                /\ UNCHANGED <<page, queryParams, pageResult, acc, served>>
    /\ UNCHANGED <<pc, calls, failedBefore, op, id, orderBy, orderDir, entity>>
    /\ UNCHANGED <<mainVars, newVars, histVars, envVars, cmdVars>>

\* The seven list operations: the same loop, on /tags/, /notes, /folders,
\* /tags/{id}/notes, /folders/{id}/notes, /notes/{id}/tags and /search.
GetAllTags == FetchPage("GetAllTags")
GetAllNotes == FetchPage("GetAllNotes")
GetAllFolders == FetchPage("GetAllFolders")
GetNotesByTag == FetchPage("GetNotesByTag")
GetNotesInFolder == FetchPage("GetNotesInFolder")
GetNoteTags == FetchPage("GetNoteTags")
Search == FetchPage("Search")

\* An error whose message names the ID of the call.
IdErr(message, ident) == [kind |-> message, id |-> ident]

\* Variant of OpErr: every error status gives the same error.
OpErrOneForAll(o, kind, ident, port) ==
    CASE kind = "transport" -> Err("transport", o, port)
      [] kind \in {"404", "httperr"} -> Err("got error response", o, port)
      [] OTHER -> Err("got unexpected response", o, port)
\* The error a single-resource operation returns for a response that is
\* not 2xx; only GetTag, GetNote, UpdateNote, GetFolder and CreateTag have
\* a branch for StatusCode == 404.
OpErr(o, kind, ident, port) ==
    CASE kind = "transport" -> Err("transport", o, port)
      [] kind = "404" /\ o = "GetTag" -> IdErr("could not find tag with IDs", ident)
      [] kind = "404" /\ o \in {"GetNote", "UpdateNote"} ->
            IdErr("could not find note with ID", ident)
      [] kind = "404" /\ o = "GetFolder" -> IdErr("could not find folder with ID", ident)
      [] kind = "404" /\ o = "CreateTag" -> Err("could not create tag", o, 0)
      [] kind \in {"404", "httperr"} -> Err("got error response", o, port)
      [] OTHER -> Err("got unexpected response", o, port)

\* Variant of DecodeEntity: the struct stays as declared.
DecodeEntityKeepsZero(old, resp) == old
\* What the request leaves in the struct passed to SetResult and SetError:
\* the body is decoded into it on a 2xx and on an error status.  Of the
\* entity, the ID is kept.
DecodeEntity(old, resp) ==
    IF resp.kind \in {"success", "404", "httperr"}
    THEN [ID |-> DecodeField(old.ID, resp.id)]
    ELSE old

\* Variant of AfterResponse: a transport error is tried again.
AfterResponseRetries(kind) == IF kind = "transport" THEN "loop" ELSE "returned"
\* Where a single-resource operation goes after its response: every
\* branch returns, those in a for loop too.
AfterResponse(kind) == "returned"

\* The body of single-resource operation o: one request and the return.
CallOnce(o) ==
    /\ pc = "ops"
    /\ op = o
    /\ opPc = "loop"
    /\ \E resp \in EntityResponses :
        /\ requests' = Append(requests, queryParams)
        /\ sentTo' = sentTo \cup {RequestTarget(newClient, queryParams)}
        /\ lastResp' = resp
        /\ entity' = IF o \in DecodingOps THEN DecodeEntity(entity, resp) ELSE entity
        /\ opErr' = IF resp.kind = "success"
                    THEN Nil
                    ELSE OpErr(o, resp.kind, id, newClient.port)
        /\ opPc' = AfterResponse(resp.kind)
    /\ UNCHANGED <<pc, calls, failedBefore, op, id, orderBy, orderDir, queryParams,
                   page, pageResult, acc, served, wellServed>>
    /\ UNCHANGED <<mainVars, newVars, histVars, envVars, cmdVars>>

\* The twelve single-resource operations: GET, POST, PUT or DELETE on
\* /tags, /tags/{id}, /notes/{id}, /folders, /folders/{id},
\* /tags/{tagID}/notes and /tags/{tagID}/notes/{noteID}.
GetTag == CallOnce("GetTag")
CreateTag == CallOnce("CreateTag")
GetNote == CallOnce("GetNote")
UpdateNote == CallOnce("UpdateNote")
GetFolder == CallOnce("GetFolder")
DeleteTag == CallOnce("DeleteTag")
DeleteTagFromNote == CallOnce("DeleteTagFromNote")
CreateTagsNotes == CallOnce("CreateTagsNotes")
UpdateNoteAuthor == CallOnce("UpdateNoteAuthor")
GetAuthorField == CallOnce("GetAuthorField")
CreateFolder == CallOnce("CreateFolder")
DeleteFolder == CallOnce("DeleteFolder")

\* The caller's next call on the same client, after an operation
\* returned: the operation's locals are declared anew.
CallNext ==
    /\ pc = "ops"
    /\ opPc = "returned"
    /\ calls < MaxCalls
    /\ calls' = calls + 1
    /\ failedBefore' = (failedBefore \/ opErr # Nil)
    /\ \E call \in Calls :
          /\ op' = call.op
          /\ orderBy' = call.orderBy
          /\ orderDir' = call.orderDir
          /\ id' = call.id
    /\ opPc' = "loop"
    /\ queryParams' = CallParams(op', newClient.apiToken, orderBy', orderDir')
    /\ page' = FirstPage(op')
    /\ pageResult' = ZeroPage
    /\ acc' = <<>>
    /\ opErr' = Nil
    /\ entity' = ZeroEntity
    /\ requests' = <<>>
    /\ lastResp' = NoResp
    /\ served' = <<>>
    /\ wellServed' = TRUE
    /\ UNCHANGED <<pc, sentTo, mainVars, newVars, histVars, envVars, cmdVars>>

NextOps ==
    \/ CallNext
    \/ GetAllTags
    \/ GetAllNotes
    \/ GetAllFolders
    \/ GetNotesByTag
    \/ GetNotesInFolder
    \/ GetNoteTags
    \/ Search
    \/ GetTag
    \/ CreateTag
    \/ GetNote
    \/ UpdateNote
    \/ GetFolder
    \/ DeleteTag
    \/ DeleteTagFromNote
    \/ CreateTagsNotes
    \/ UpdateNoteAuthor
    \/ GetAuthorField
    \/ CreateFolder
    \/ DeleteFolder

SpecOps == InitOps /\ [][NextOps]_vars

(* ------------------------------------------------------------------ *)
(* The subcommands delete tags and list tags                          *)
(* ------------------------------------------------------------------ *)
\* The most IDs on a command line, and the most tags a fetch returns.
MaxIDs == 3
MaxTags == 4

\* The sequences over S of length lo..hi.
SeqsOf(S, lo, hi) == UNION { [1..n -> S] : n \in lo..hi }

\* The tags of the server: two that share a title, and a third.
TagPool == { [ID |-> "id1", Title |-> "work"],
             [ID |-> "id2", Title |-> "work"],
             [ID |-> "id3", Title |-> "home"] }

\* A line of output: its text and the IDs printed in it.
Line(text, ids) == [text |-> text, ids |-> ids]

\* main has dispatched delete tags or list tags.  New returned the client
\* with a nil error: a client of a port it found or, after a scan whose
\* last failed probe gave an error status, nil.  The histories of New and
\* of the operations are not kept here.
InitCmd ==
    /\ pc = "cmd"
    /\ apiToken = "cfgTok"
    /\ client \in {"nil", "&newClient"}
    /\ err = Nil
    /\ configWrites = 0
    /\ configToken = apiToken
    /\ retErr = Nil
    /\ joplinPortFound = (client # "nil")
    /\ IF joplinPortFound
       THEN newClient \in Clients /\ i = newClient.port
       ELSE newClient = [port |-> 0, apiToken |-> apiToken] /\ i = joplinMaxPortNum + 1
    /\ authToken = ""
    /\ result = ZeroResult
    /\ retries = 0
    /\ probed = <<>>
    /\ authPosts = 0
    /\ polls = 0
    /\ sleeps = 0
    /\ waitingPolls = 0
    /\ unknownPolls = 0
    /\ otherPolls = 0
    /\ lastPoll = NoPoll
    /\ pingOk = {}
    /\ lastPingErr = 0
    /\ pairPorts = {}
    /\ authOutcome = "none"
    /\ scripted = FALSE /\ scriptPort = 0 /\ scriptWaits = 0
    /\ OpsIdle
    /\ \/ /\ cmd = "delete tags"
          /\ cmdIDs \in SeqsOf(IDs, 1, MaxIDs)
          /\ duplicatesOnly = FALSE
       \/ /\ cmd = "list tags"
          /\ cmdIDs \in SeqsOf(IDs, 0, MaxIDs)
          /\ duplicatesOnly \in BOOLEAN
    /\ cmdPc = "loop"
    /\ idx = 1
    /\ attempts = <<>>
    /\ tags = <<>>
    /\ output = <<>>
    /\ runErr = Nil

\* Where the range loop over n IDs goes after the k-th: on to the next ID
\* whatever the error e, and to return nil after the last.
AfterDelete(e, k, n) == IF k >= n THEN "returned" ELSE "loop"

\* One iteration of the range loop of DeleteTagsCmd.Run: client.DeleteTag
\* of the ID, which panics on a nil client, and the line printed for it;
\* after the last ID, return nil.
DeleteTagsRun ==
    /\ pc = "cmd"
    /\ cmd = "delete tags"
    /\ cmdPc = "loop"
    /\ IF client = "nil"
       THEN /\ cmdPc' = "panic"
            /\ UNCHANGED <<idx, attempts, output>>
       ELSE \E kind \in PageOutcomes :
              LET e == IF kind = "success"
                       THEN Nil
                       ELSE OpErr("DeleteTag", kind, cmdIDs[idx], newClient.port)
              IN
              /\ attempts' = Append(attempts, cmdIDs[idx])
              /\ output' = Append(output,
                                  Line(IF e # Nil THEN "Could not find tag with ID"
                                                  ELSE "Tag with ID deleted",
                                       <<cmdIDs[idx]>>))
              /\ cmdPc' = AfterDelete(e, idx, Len(cmdIDs))
              /\ idx' = idx + 1
    /\ UNCHANGED <<pc, cmd, cmdIDs, duplicatesOnly, tags, runErr>>
    /\ UNCHANGED <<mainVars, newVars, histVars, envVars, opVars>>

\* The IDs of the tags of `fetched` titled `title`, in the order fetched:
\* tagsFound[title] after the loop of appends.
TagsFound(fetched, title) ==
    LET titled == SelectSeq(fetched, LAMBDA t : t.Title = title)
    IN  [k \in 1..Len(titled) |-> titled[k].ID]

\* The titles the duplicates loop prints: those with more than one ID.
PrintedTitles(fetched) ==
    { t \in {fetched[k].Title : k \in 1..Len(fetched)} : Len(TagsFound(fetched, t)) > 1 }

\* The orders a range over the map tagsFound may visit the titles of S in.
MapOrders(S) ==
    { ord \in [1..Cardinality(S) -> S] :
        \A j, k \in 1..Cardinality(S) : ord[j] = ord[k] => j = k }

\* What GetAllTags may return: tags, with or without an error.
FetchResults ==
    { [tags |-> l, err |-> e] :
        l \in SeqsOf(TagPool, 0, MaxTags),
        e \in {Nil, Err("got error response", "GetAllTags", newClient.port)} }

\* The lines ListTagsCmd.Run prints first unless DuplicatesOnly is set.
Header(dupOnly) ==
    IF dupOnly
    THEN <<>>
    ELSE <<Line("Tags:", <<>>), Line("ID | Parent ID | Title", <<>>)>>

\* ListTagsCmd.Run without IDs: the header lines, client.GetAllTags, which
\* panics on a nil client, and the listing: with DuplicatesOnly the titles
\* of more than one tag with their IDs, else every tag.
ListTagsAll ==
    /\ pc = "cmd"
    /\ cmd = "list tags"
    /\ cmdPc = "loop"
    /\ Len(cmdIDs) = 0
    /\ IF client = "nil"
       THEN /\ cmdPc' = "panic"
            /\ output' = Header(duplicatesOnly)
            /\ UNCHANGED <<tags, runErr>>
       ELSE \E fetch \in FetchResults :
              /\ tags' = fetch.tags
              /\ cmdPc' = "returned"
              /\ runErr' = fetch.err
              /\ IF fetch.err # Nil
                 THEN output' = Header(duplicatesOnly)
                 ELSE IF duplicatesOnly
                      THEN \E ord \in MapOrders(PrintedTitles(fetch.tags)) :
                             output' = <<Line("Duplicate tags:", <<>>)>> \o
                                 [k \in 1..Len(ord) |->
                                     Line(ord[k], TagsFound(fetch.tags, ord[k]))]
                      ELSE output' = Header(duplicatesOnly) \o
                               [k \in 1..Len(fetch.tags) |->
                                   Line(fetch.tags[k].Title, <<fetch.tags[k].ID>>)]
    /\ UNCHANGED <<pc, cmd, cmdIDs, duplicatesOnly, idx, attempts>>
    /\ UNCHANGED <<mainVars, newVars, histVars, envVars, opVars>>

\* One iteration of the range loop of ListTagsCmd.Run with IDs (the header
\* lines come before the first): client.GetTag of the ID and the line
\* printed for it; after the last ID, return nil.
ListTagsByID ==
    /\ pc = "cmd"
    /\ cmd = "list tags"
    /\ cmdPc = "loop"
    /\ Len(cmdIDs) > 0
    /\ LET before == IF idx = 1 THEN Header(duplicatesOnly) ELSE <<>> IN
       IF client = "nil"
       THEN /\ cmdPc' = "panic"
            /\ output' = output \o before
            /\ UNCHANGED <<idx, attempts>>
       ELSE \E resp \in EntityResponses :
              LET tag == DecodeEntity(ZeroEntity, resp) IN
              /\ attempts' = Append(attempts, cmdIDs[idx])
              /\ output' = output \o before \o
                    << IF resp.kind = "success"
                       THEN Line("", <<tag.ID>>)
                       ELSE Line("ERROR: tag not found", <<cmdIDs[idx]>>) >>
              /\ cmdPc' = IF idx >= Len(cmdIDs) THEN "returned" ELSE "loop"
              /\ idx' = idx + 1
    /\ UNCHANGED <<pc, cmd, cmdIDs, duplicatesOnly, tags, runErr>>
    /\ UNCHANGED <<mainVars, newVars, histVars, envVars, opVars>>

NextCmd == DeleteTagsRun \/ ListTagsAll \/ ListTagsByID

SpecCmd == InitCmd /\ [][NextCmd]_vars

(* ================================================================== *)
(* Properties of New and of the pairing handshake (under Spec)        *)
(* ================================================================== *)
\* New has returned to main.
NewReturned == pc \in {"afterNew", "fatal", "panic", "dispatch", "ran", "exit"}

\* The method GetApiToken of the client New returned.
GetApiToken == newClient.apiToken

\* The latest poll was answered 2xx with this status in its body.
LastPollStatus(status) == lastPoll.kind = "success" /\ lastPoll.status = status

(* C1: the ports are probed in strictly ascending order from 41184, one
   probe per port; once a port answered /ping with success no higher port
   is probed; the client New returns has the lowest port that answered
   with success. *)
C1_ScanAscendingStopsAtFirstSuccess ==
    /\ \A k \in 1..Len(probed) : probed[k] = joplinMinPortNum + (k - 1)
    /\ Len(probed) <= joplinMaxPortNum - joplinMinPortNum + 1
    /\ \A p \in pingOk : \A k \in 1..Len(probed) : probed[k] <= p
    /\ (NewReturned /\ client = "&newClient") =>
          /\ newClient.port \in pingOk
          /\ \A p \in pingOk : newClient.port <= p

C1_Witness ==
    /\ NewReturned
    /\ client = "&newClient"
    /\ ~scripted
    /\ newClient.port = joplinMinPortNum + 3
    /\ Len(probed) = 4

(* C2: when no port answers /ping with success, New returns a nil client
   and a non-nil error, the error of the last probe that ended in one (a
   transport error or an HTTP error status); New never returns a nil
   client with a nil error, and main never calls a method on a nil
   client. *)
C2_ScanFailureReturnsLastError ==
    /\ (NewReturned /\ pingOk = {}) =>
          /\ client = "nil"
          /\ err # Nil
          /\ err.request = "/ping" /\ err.port = lastPingErr
    /\ NewReturned => ~(client = "nil" /\ err = Nil)
    /\ pc # "panic"

(* C3: with a non-empty token New issues no POST /auth and no GET
   /auth/check and the returned client holds the supplied token; with an
   empty token a successful New has issued exactly one POST /auth and then
   at least one GET /auth/check, all on the discovered port. *)
C3_PairingOnlyWithoutToken ==
    /\ Len(apiToken) # 0 =>
          /\ authPosts = 0 /\ polls = 0
          /\ (NewReturned /\ client = "&newClient") => GetApiToken = apiToken
    /\ polls > 0 => authPosts = 1
    /\ authPosts <= 1
    /\ pairPorts \subseteq pingOk
    /\ (Len(apiToken) = 0 /\ NewReturned /\ client = "&newClient") =>
          /\ authPosts = 1
          /\ polls >= 1
          /\ pairPorts = {newClient.port}

C3_Witness ==
    /\ Len(apiToken) = 0
    /\ NewReturned
    /\ client = "&newClient"
    /\ ~scripted
    /\ polls >= 2
    /\ newClient.port > joplinMinPortNum

(* C4: a poll answered 2xx with status "accepted" ends the polling, and
   the token that response carries is the token GetApiToken reports for
   the client New returns. *)
C4_AcceptedTokenIsClientToken ==
    (LastPollStatus("accepted") /\ lastPoll.token # Absent) =>
        /\ pc # "getApiToken"
        /\ joplinPortFound
        /\ GetApiToken = lastPoll.token
        /\ NewReturned => (client = "&newClient" /\ err = Nil)

C4_Witness ==
    /\ LastPollStatus("accepted")
    /\ lastPoll.token = "tokB"
    /\ ~scripted
    /\ polls >= 2
    /\ NewReturned
    /\ client = "&newClient"

(* C5: a poll answered "rejected" ends the negotiation at once: no further
   poll and no sleep follow it, getApiToken returns an empty token and a
   non-nil error, and New returns no client. *)
C5_RejectedIsTerminal ==
    LastPollStatus("rejected") =>
        /\ pc # "getApiToken"
        /\ sleeps + unknownPolls + otherPolls = polls - 1
        /\ GetApiToken = ""
        /\ retErr = Err("request rejected", "/auth/check", newClient.port)
        /\ ~joplinPortFound
        /\ NewReturned => (client = "nil" /\ err = retErr)

C5_Witness ==
    /\ LastPollStatus("rejected")
    /\ polls >= 2
    /\ sleeps >= 1
    /\ pc = "fatal"

(* C6: a poll answered 2xx with a status that is none of "accepted",
   "rejected", "waiting" (an absent status too) ends the negotiation:
   getApiToken returns with an error and no further poll is issued. *)
C6_UnknownStatusIsTerminal ==
    (lastPoll.kind = "success"
        /\ lastPoll.status \notin {"accepted", "rejected", "waiting"}) =>
        /\ pc # "getApiToken"
        /\ retErr.request = "/auth/check"
        /\ ~joplinPortFound

(* C7: when every poll is answered "waiting", the negotiation fails with
   "could not get an answer from user" after exactly 20 polls; a 21st poll
   is never issued. *)
C7_WaitingForeverFailsAfter20Polls ==
    (scripted /\ scriptWaits >= retriesGetApiToken) =>
        /\ polls <= retriesGetApiToken
        /\ polls = retriesGetApiToken => pc # "getApiToken"
        /\ (pc = "return" \/ NewReturned) =>
              /\ polls = retriesGetApiToken
              /\ ~joplinPortFound
              /\ retErr = Err("could not get an answer from user", "/auth/check",
                              newClient.port)
        /\ NewReturned => (client = "nil" /\ err = retErr)

C7_Witness ==
    /\ scripted
    /\ scriptWaits >= retriesGetApiToken
    /\ polls = retriesGetApiToken
    /\ LastPollStatus("waiting")
    /\ pc = "fatal"

\* The server answers "waiting" n times and then "accepted": the outcome
\* the claim states for it.
SucceedsAfterWaits(n) ==
    (scripted /\ scriptWaits = n /\ (pc = "return" \/ NewReturned)) =>
        /\ joplinPortFound
        /\ polls = n + 1
        /\ LastPollStatus("accepted")
        /\ GetApiToken = lastPoll.token
        /\ NewReturned => (client = "&newClient" /\ err = Nil)

(* C8, as stated: for every N from 0 to 20, waiting N times and then
   accepted succeeds after exactly N+1 polls with the accepted token. *)
C8_AsStated ==
    \A n \in 0..retriesGetApiToken : SucceedsAfterWaits(n)

(* C8, amended: for every N from 0 to 19, waiting N times and then accepted
   succeeds after exactly N+1 polls with the accepted token; with N = 20
   the 20th "waiting" ends the negotiation in failure after 20 polls. *)
C8_WaitsThenAccepted ==
    /\ \A n \in 0..(retriesGetApiToken - 1) : SucceedsAfterWaits(n)
    /\ (scripted /\ scriptWaits = retriesGetApiToken /\ (pc = "return" \/ NewReturned)) =>
          /\ ~joplinPortFound
          /\ polls = retriesGetApiToken

C8_Witness ==
    /\ scripted
    /\ scriptWaits = retriesGetApiToken - 1
    /\ polls = retriesGetApiToken
    /\ sleeps = retriesGetApiToken - 1
    /\ NewReturned
    /\ client = "&newClient"

(* C9: a POST /auth that ends in a transport error or a non-success status
   fails the negotiation without retry: exactly one POST /auth was issued,
   no poll is issued, no port above the discovered one is probed, and New
   returns the error and no client. *)
C9_AuthFailureIsFatal ==
    authOutcome \in {"transport", "httperr", "other"} =>
        /\ authPosts = 1
        /\ polls = 0
        /\ pc \notin {"probe", "getAuthToken", "getApiToken"}
        /\ probed[Len(probed)] = newClient.port
        /\ ~joplinPortFound
        /\ retErr # Nil
        /\ retErr = AuthErr(authOutcome, newClient.port)
        /\ NewReturned => (client = "nil" /\ err = retErr)

C9_Witness ==
    /\ authOutcome = "other"
    /\ newClient.port > joplinMinPortNum
    /\ newClient.port < joplinMaxPortNum
    /\ pc = "fatal"

(* ================================================================== *)
(* Properties of the list operations (under SpecOps)                  *)
(* ================================================================== *)
(* C10: when the server serves pages 1..k with 2xx, has_more true on
   pages 1..k-1 and false on page k, a list operation returns no error and
   the concatenation of the items of pages 1..k: pages in request order,
   items in the order served, each as many times as it was served. *)
C10_ReturnsServedItems ==
    (op \in ListOps /\ opPc = "returned" /\ wellServed) =>
        /\ opErr = Nil
        /\ acc = served

(* C11: a list operation requests the pages 1, 2, 3, ... in that order,
   none skipped and none twice: the first request carries page 1, a 2xx
   response with has_more true leaves the loop about to request the next
   page, a 2xx response with has_more false ends the call with no error
   and no further request, so a collection of k pages costs k requests. *)
C11_PagesRequestedInOrder ==
    op \in ListOps =>
        /\ \A k \in 1..Len(requests) : requests[k].page = k
        /\ opPc = "loop" =>
              /\ page = Len(requests) + 1
              /\ queryParams.page = page
        /\ (lastResp.kind = "success" /\ lastResp.has_more.present) =>
              IF lastResp.has_more.value
              THEN opPc = "loop"
              ELSE opPc = "returned" /\ opErr = Nil
        /\ (opPc = "returned" /\ opErr = Nil) => Len(requests) = page

\* A three-page collection was returned after three requests.
C11_Witness ==
    /\ op \in ListOps
    /\ opPc = "returned"
    /\ opErr = Nil
    /\ wellServed
    /\ lastResp.has_more = Field(FALSE)
    /\ Len(requests) = MaxPages

(* C12: when the request for page j of a list operation ends in a
   transport error, an error status or any other response that is not 2xx,
   the call returns at once, page j being the last page requested, with an
   error and the items of the pages 1..j-1 as served, in order. *)
C12_ErrorReturnsEarlierPages ==
    (op \in ListOps /\ opPc = "returned" /\ lastResp.kind # "success") =>
        /\ opErr # Nil
        /\ Len(requests) = page
        /\ requests[page].page = page
        /\ acc = served

\* The upper-case spelling of the orderDir arguments of OrderDirs.
UpperCased(dir) ==
    CASE dir = <<"d", "e", "s", "c">> -> <<"D", "E", "S", "C">>
      [] dir = <<"A", "s", "c">>      -> <<"A", "S", "C">>
      [] dir = <<"d", "?">>           -> <<"D", "?">>
      [] OTHER                        -> dir

\* Every request of a list operation carries the ordering arguments, an
\* empty one left out, and no call returns without having issued a request.
OrderingSent ==
    op \in OrderedOps =>
        /\ \A k \in 1..Len(requests) :
              /\ requests[k].order_by =
                    IF orderBy = "" THEN NoField("") ELSE Field(orderBy)
              /\ requests[k].order_dir =
                    IF orderDir = <<>> THEN NoField(<<>>) ELSE Field(UpperCased(orderDir))
        /\ opPc = "returned" => Len(requests) >= 1

\* A step of a list operation (within one call, calls unchanged) leaves the
\* accumulated items where they are and appends the items of a 2xx body in
\* the order the body has them.
ItemsAppendedAsServed ==
    (op \in OrderedOps /\ calls' = calls) =>
        /\ Len(acc') >= Len(acc)
        /\ SubSeq(acc', 1, Len(acc)) = acc
        /\ (lastResp'.kind = "success" /\ lastResp'.items.present) =>
              SubSeq(acc', Len(acc) + 1, Len(acc')) = lastResp'.items.value

(* C13: every page request of a list operation with ordering arguments
   carries order_dir as the upper-cased orderDir and order_by as orderBy
   unchanged, an empty argument is not sent, no argument (a direction that
   is none included) keeps the call from issuing its request, and the
   items are returned in the order served, never re-sorted. *)
C13_OrderingPassedThrough ==
    []OrderingSent /\ [][ItemsAppendedAsServed]_vars

\* A second page was requested with order_by Title and order_dir DESC for
\* the arguments "Title" and "desc", and the items came back unsorted.
C13_Witness ==
    /\ op \in OrderedOps
    /\ orderBy = "Title"
    /\ orderDir = <<"d", "e", "s", "c">>
    /\ opPc = "returned"
    /\ opErr = Nil
    /\ Len(requests) = 2
    /\ requests[2].order_by = Field("Title")
    /\ requests[2].order_dir = Field(<<"D", "E", "S", "C">>)
    /\ acc = <<"B", "A", "A">>

(* ================================================================== *)
(* Properties of the single-resource operations (under SpecOps)       *)
(* ================================================================== *)
\* The latest response had an error status other than 404, such as 500.
OtherErrorStatus == lastResp.kind = "httperr"

(* C14: GetTag, GetNote and GetFolder answered with 404 return a "could
   not find ..." error that names the requested ID; answered with another
   error status such as 500 they return a "got error response" error, so
   the two are told apart. *)
C14_GetNotFoundNamesID ==
    (op \in GetOps /\ opPc = "returned") =>
        /\ lastResp.kind = "404" =>
              /\ opErr.kind = CASE op = "GetTag"  -> "could not find tag with IDs"
                                [] op = "GetNote" -> "could not find note with ID"
                                [] OTHER          -> "could not find folder with ID"
              /\ opErr.id = id
        /\ OtherErrorStatus => opErr.kind = "got error response"

\* GetNote("id2", ...) was answered with 404 and returned the error.
C14_Witness ==
    /\ op = "GetNote"
    /\ id = "id2"
    /\ opPc = "returned"
    /\ lastResp.kind = "404"
    /\ opErr = IdErr("could not find note with ID", "id2")

(* C15: every single-resource operation, DeleteTag, DeleteFolder,
   DeleteTagFromNote, CreateTagsNotes, UpdateNoteAuthor, GetAuthorField and
   CreateFolder included, answered with 404 returns an error that is not
   the error it returns for another error status. *)
C15_EveryOperationTellsNotFound ==
    (op \in SingleOps /\ opPc = "returned" /\ lastResp.kind = "404") =>
        opErr.kind # "got error response"

(* C16: a call of a single-resource operation issues exactly one HTTP
   request, whatever the response (2xx, error status, transport error,
   other status): none before the request of the call, one when it has
   returned, and it returns right after the first response, the operations
   written with a for loop too. *)
C16_OneRequestPerCall ==
    op \in SingleOps =>
        /\ opPc \in {"loop", "returned"}
        /\ opPc = "loop" <=> requests = <<>>
        /\ opPc = "returned" <=> Len(requests) = 1

\* DeleteFolder, written with a for loop, returned after one request that
\* ended in a transport error.
C16_Witness ==
    /\ op = "DeleteFolder"
    /\ opPc = "returned"
    /\ lastResp.kind = "transport"
    /\ opErr = Err("transport", "DeleteFolder", newClient.port)
    /\ Len(requests) = 1

(* C17 as stated: whenever GetTag, GetNote or GetFolder returns an entity
   with no error, the entity's ID is the requested ID, whatever the
   response. *)
C17_AsStated ==
    (op \in GetOps /\ opPc = "returned" /\ opErr = Nil) => entity.ID = id

(* C17: whenever GetTag, GetNote or GetFolder returns an entity with no
   error, the entity's ID is the id of the response body, empty when the
   body carries none; it is the requested ID when the body carries the
   requested ID. *)
C17_ReturnedIDIsBodyID ==
    (op \in GetOps /\ opPc = "returned" /\ opErr = Nil) =>
        /\ entity.ID = IF lastResp.id.present THEN lastResp.id.value ELSE ""
        /\ lastResp.id = Field(id) => entity.ID = id

\* GetTag("id1", ...) returned the tag id1 the server answered with.
C17_Witness ==
    /\ op = "GetTag"
    /\ id = "id1"
    /\ opPc = "returned"
    /\ opErr = Nil
    /\ lastResp.id = Field("id1")
    /\ entity.ID = "id1"

(* ================================================================== *)
(* Properties of a run of main (under Spec), continued                *)
(* ================================================================== *)
(* C18: in a run of main the settings file is written at most once, and
   only when the token read at startup was empty and New returned a client
   after an accepted pairing; the token written is the client's; with a
   token configured, or when New failed, the file is never written; and
   no subcommand runs before the write. *)
C18_SettingsWrittenOnceAfterPairing ==
    /\ configWrites <= 1
    /\ configWrites = 1 =>
          /\ apiToken = ""
          /\ NewReturned
          /\ client = "&newClient"
          /\ LastPollStatus("accepted")
          /\ configToken = GetApiToken
    /\ (apiToken # "" \/ client = "nil") =>
          /\ configWrites = 0
          /\ configToken = apiToken
    /\ (pc = "ran" /\ apiToken = "") => configWrites = 1

\* A subcommand ran after the token of a pairing was written.
C18_Witness ==
    /\ pc = "ran"
    /\ apiToken = ""
    /\ configWrites = 1
    /\ configToken = "tokA"
    /\ GetApiToken = "tokA"

(* C19: a probe that ends in a transport error or an error status never
   ends the scan: after a failed probe of a port below 41194 the next
   higher port is the one probed next, and the scan ends without a port
   that answered with success only after all eleven ports were probed, so
   a port that answers with success is reached whatever the lower ports
   answered. *)
C19_FailedProbeNeverEndsScan ==
    /\ pc = "probe" => i = joplinMinPortNum + Len(probed)
    /\ (Len(probed) > 0 /\ pingOk = {} /\ probed[Len(probed)] < joplinMaxPortNum) =>
          /\ pc = "probe"
          /\ i = probed[Len(probed)] + 1
    /\ (pc # "probe" /\ pingOk = {}) =>
          /\ Len(probed) = joplinMaxPortNum - joplinMinPortNum + 1
          /\ probed[Len(probed)] = joplinMaxPortNum

\* The ten lower ports failed, the last of them with a transport error or
\* an error status, and New returned a client of port 41194.
C19_Witness ==
    /\ NewReturned
    /\ client = "&newClient"
    /\ newClient.port = joplinMaxPortNum
    /\ pingOk = {joplinMaxPortNum}
    /\ lastPingErr = joplinMaxPortNum - 1
    /\ Len(probed) = joplinMaxPortNum - joplinMinPortNum + 1

(* C20: a poll of /auth/check that ends in a transport error or an error
   status, after earlier "waiting" answers too, ends the negotiation: no
   sleep and no further poll follow it, getApiToken returns an empty token
   with the error of that poll, and New returns no client. *)
C20_PollErrorIsTerminal ==
    lastPoll.kind \in {"transport", "httperr"} =>
        /\ pc # "getApiToken"
        /\ sleeps + unknownPolls + otherPolls = polls - 1
        /\ GetApiToken = ""
        /\ retErr = Err(IF lastPoll.kind = "transport"
                        THEN "transport" ELSE "got error response",
                        "/auth/check", newClient.port)
        /\ ~joplinPortFound
        /\ NewReturned => (client = "nil" /\ err = retErr)

\* A poll after a "waiting" answer got an error status, and main ended.
C20_Witness ==
    /\ lastPoll.kind = "httperr"
    /\ polls >= 2
    /\ sleeps >= 1
    /\ retErr.kind = "got error response"
    /\ pc = "fatal"

(* C21: a POST /auth answered 2xx with a body that carries no auth token
   (no auth_token key, or an empty one) fails the negotiation:
   getAuthToken returns an error and no /auth/check poll is issued with
   the empty auth token. *)
C21_EmptyAuthTokenIsFatal ==
    (authOutcome = "success" /\ authToken = "") =>
        /\ pc # "getApiToken"
        /\ polls = 0
        /\ retErr # Nil

\* Every poll but the latest was answered "waiting", the latest with
\* anything.
AllButLastWaiting ==
    /\ polls >= 1
    /\ waitingPolls >= polls - 1
    /\ LastPollStatus("waiting") => waitingPolls = polls

(* C22: while polling, each "waiting" answer that is followed by another
   poll is followed by one sleep before it; no sleep follows the response
   that ends the negotiation (accepted, rejected, an error, the 20th
   waiting): a negotiation ended after p polls, all but the last answered
   "waiting", slept p-1 times, and never more than 19 times. *)
C22_OneSleepPerWaitingRetry ==
    /\ sleeps <= retriesGetApiToken - 1
    /\ (pc = "getApiToken" /\ waitingPolls = polls) => sleeps = polls
    /\ (pc # "getApiToken" /\ polls >= 1) => sleeps <= polls - 1
    /\ (pc # "getApiToken" /\ AllButLastWaiting) => sleeps = polls - 1

\* A negotiation of three polls, the third rejected, slept twice.
C22_Witness ==
    /\ pc = "fatal"
    /\ polls = 3
    /\ waitingPolls = 2
    /\ LastPollStatus("rejected")
    /\ sleeps = 2

(* ================================================================== *)
(* Properties of the list operations (under SpecOps), continued       *)
(* ================================================================== *)
\* The latest response was 2xx and its body carries this has_more.
LastHasMore(b) == lastResp.kind = "success" /\ lastResp.has_more = Field(b)

(* C23: a list operation has no cap on its pages: after a 2xx response
   that carries has_more true it has not returned and is about to request
   the next page, whatever the page number; it has returned only after a
   response that is not 2xx or does not carry has_more true, and it has
   returned after every response that is not 2xx or carries has_more
   false. *)
C23_NoPageCap ==
    op \in ListOps =>
        /\ LastHasMore(TRUE) =>
              /\ opPc = "loop"
              /\ page = Len(requests) + 1
        /\ opPc = "returned" => ~LastHasMore(TRUE)
        /\ (Len(requests) >= 1 /\ (lastResp.kind # "success" \/ LastHasMore(FALSE))) =>
              opPc = "returned"

\* Every page the server answered carried has_more true, and the loop is
\* about to request the last page the server has.
C23_Witness ==
    /\ op \in ListOps
    /\ wellServed
    /\ LastHasMore(TRUE)
    /\ opPc = "loop"
    /\ Len(requests) = MaxPages - 1
    /\ queryParams.page = MaxPages

\* A step leaves the client as New returned it and issues no /ping, no
\* POST /auth and no /auth/check.
ClientLeftAlone ==
    /\ newClient' = newClient
    /\ client' = client
    /\ probed' = probed
    /\ authPosts' = authPosts
    /\ polls' = polls

(* C24: after New returned a client, no operation changes the client's
   port or token and none probes /ping or pairs again, also after an
   operation failed: every request of every operation goes to the port and
   carries the token the client was constructed with. *)
C24_ClientFixedAfterNew ==
    /\ [](sentTo \subseteq {[port |-> newClient.port, token |-> newClient.apiToken]})
    /\ [][ClientLeftAlone]_vars

\* After an operation failed, a second operation sent its request to the
\* port of the client, 41194, with its token, and returned no error.
C24_Witness ==
    /\ calls = MaxCalls
    /\ failedBefore
    /\ Len(requests) >= 1
    /\ opPc = "returned"
    /\ opErr = Nil
    /\ newClient.port = joplinMaxPortNum
    /\ sentTo = {[port |-> joplinMaxPortNum, token |-> "tokA"]}

(* C25: in a list operation the effect of a page depends on the response
   to that page only: the items appended are the items its body carries
   (none when it carries no items), so the accumulator is what was served,
   and the loop goes on after it only when its body carries has_more
   true. *)
C25_PageDependsOnOwnResponse ==
    (op \in ListOps /\ lastResp.kind = "success") =>
        /\ acc = served
        /\ opPc = "loop" <=> LastHasMore(TRUE)

\* The page numbers requested so far.
PagesRequested == [k \in 1..Len(requests) |-> requests[k].page]

\* Every list operation starts as GetAllTags does.
StartsAsGetAllTags ==
    (op \in ListOps /\ requests = <<>>) =>
        /\ opPc = "loop"
        /\ page = 1
        /\ queryParams.page = 1
        /\ pageResult = ZeroPage
        /\ acc = <<>>

\* A step of a list operation does with the response what the loop of
\* GetAllTags does with it, the operation's name playing no part: the page
\* requested, the number of items appended, whether it stops, the next
\* page and whether an error is returned.
StepsAsGetAllTags ==
    (op \in ListOps /\ opPc = "loop") =>
        LET ok  == lastResp'.kind = "success"
            res == IF ok THEN DecodePage(pageResult, lastResp') ELSE pageResult
            on  == ok /\ res.HasMore
        IN  /\ op' = op
            /\ PagesRequested' = Append(PagesRequested, page)
            /\ pageResult' = res
            /\ Len(acc') = Len(acc) + (IF ok THEN Len(res.Items) ELSE 0)
            /\ (opPc' = "loop") = on
            /\ page' = IF on THEN page + 1 ELSE page
            /\ (opErr' # Nil) = ~ok

(* C26: the seven list operations are one pagination machine: started the
   same way, each does with every page outcome (2xx with has_more true or
   false and n items, error status, transport error, other status) what
   GetAllTags does, so fed the same outcomes they request the same pages,
   stop at the same page, return as many items and agree on whether an
   error is returned. *)
C26_OnePaginationMachine ==
    []StartsAsGetAllTags /\ [][StepsAsGetAllTags]_vars

\* Search stopped at its third page on a status that is neither 2xx nor
\* an error status, with the items of two pages and an error.
C26_Witness ==
    /\ op = "Search"
    /\ opPc = "returned"
    /\ PagesRequested = <<1, 2, 3>>
    /\ lastResp.kind = "other"
    /\ Len(acc) = 3
    /\ opErr = Err("got unexpected response", "Search", newClient.port)

(* ================================================================== *)
(* Properties of the subcommands (under SpecCmd)                      *)
(* ================================================================== *)
(* C27: delete tags attempts every ID of the command line once, in the
   order given, whatever the outcome of the earlier ones, prints one line
   for each, and Run returns no error: once the loop is left, Run has
   returned nil after one DeleteTag and one line per ID. *)
C27_EveryIDAttemptedOnce ==
    (cmd = "delete tags" /\ cmdPc # "loop") =>
        /\ cmdPc = "returned"
        /\ runErr = Nil
        /\ attempts = cmdIDs
        /\ Len(output) = Len(cmdIDs)
        /\ \A k \in 1..Len(cmdIDs) : output[k].ids = <<cmdIDs[k]>>

\* The positions of `fetched` that hold a tag titled `title`.
Titled(fetched, title) == { k \in 1..Len(fetched) : fetched[k].Title = title }

\* The IDs of the tags titled `title`, each once, in the order they were
\* first fetched.
IDsOnce(fetched, title) ==
    LET first == { k \in Titled(fetched, title) :
                     \A j \in Titled(fetched, title) : fetched[j].ID = fetched[k].ID => k <= j }
        at(n) == CHOOSE k \in first : Cardinality({ j \in first : j <= k }) = n
    IN  [n \in 1..Cardinality(first) |-> fetched[at(n)].ID]

(* C28: list tags with duplicates-only and no IDs prints a title exactly
   when at least two of the fetched tags have it, with the IDs of all tags
   that carry it, each once and in fetch order; a title carried by one tag
   is never printed; when the fetch returns an error, nothing is listed
   and the error is returned. *)
C28_DuplicateTitlesListed ==
    (cmd = "list tags" /\ duplicatesOnly /\ Len(cmdIDs) = 0 /\ cmdPc = "returned") =>
        IF runErr # Nil
        THEN output = <<>>
        ELSE LET listed == Tail(output) IN
             /\ \A k \in 1..Len(tags) :
                   (\E n \in 1..Len(listed) : listed[n].text = tags[k].Title)
                       <=> Cardinality(Titled(tags, tags[k].Title)) >= 2
             /\ \A n \in 1..Len(listed) :
                   /\ listed[n].ids = IDsOnce(tags, listed[n].text)
                   /\ Len(listed[n].ids) >= 2

====
